---- MODULE Spec2Model ----
(***************************************************************************)
(* Model of main/main.cpp of filament_dryer: the ADC continuous-mode       *)
(* consumer.  One task (app_main) brings the engine up, then loops         *)
(* forever: block in ulTaskNotifyTake, then read the driver's pool until   *)
(* a read reports ESP_ERR_TIMEOUT, averaging and logging every ESP_OK      *)
(* read and sleeping in vTaskDelay after each log line.  One interrupt     *)
(* (continuous_adc_done_callback) notifies the task for every conversion   *)
(* frame the hardware has stored.                                          *)
(*                                                                         *)
(* The driver and the kernel are the environment: a frame stored by the    *)
(* hardware is a byte count in `pool`, its bytes are chosen when the read  *)
(* copies them out, and every driver call may succeed or fail.  Runs in    *)
(* which the pool overflows are outside the model (the hardware stores at  *)
(* most MaxBatches frames).                                                *)
(***************************************************************************)
EXTENDS Integers, Sequences, FiniteSets, TLC

\* ------------------------------------------------------------ bounds ----
\* frames the hardware stores in one run
MaxBatches == 2
\* samples the hardware may deliver, as <<low byte, high byte>>: the codes 1
\* and 272, each tagged with channel 6 in the high four bits
Samples == {<<1, 96>>, <<16, 97>>}
\* values an unsigned division by zero may leave in avg when it does not trap
DivZeroValues == {0, 4095}

\* --------------------------------------------------------- constants ----

SOC_ADC_DIGI_RESULT_BYTES == 2
\* capacity of the readings array in samples (100 in the source, scaled down)
kAdcSamplesToRead == 2
\* sizeof(readings)
SizeofReadings == kAdcSamplesToRead * SOC_ADC_DIGI_RESULT_BYTES
\* the reporting interval of vTaskDelay(1000 / portTICK_PERIOD_MS)
kReportIntervalMs == 1000
\* ADC_BITWIDTH_10
kAdcBitWidth == 10
\* 1 << kAdcBitWidth
FullScale == 2 ^ kAdcBitWidth
\* the raw codes of the configured bit width
ValidCodes == 0..(FullScale - 1)
\* milliseconds per kernel tick (10 at the default tick rate, scaled up)
portTICK_PERIOD_MS == 500

ESP_OK == "ESP_OK"
ESP_ERR_TIMEOUT == "ESP_ERR_TIMEOUT"
ESP_ERR_INVALID_STATE == "ESP_ERR_INVALID_STATE"
ESP_FAIL == "ESP_FAIL"
ReadStatus == {ESP_OK, ESP_ERR_TIMEOUT, ESP_ERR_INVALID_STATE}

VARIABLES
    pc,            \* where app_main is
    fault,         \* why the process aborted ("none" while it runs)
    engine,        \* lifecycle state of the ADC engine
    cbRegistered,  \* on_conv_done is installed
    main_task,     \* the task handle the callback notifies
    pool,          \* byte counts of the frames stored and not yet read
    ids,           \* their ordinal numbers, given when they were stored
    produced,      \* frames stored so far
    consumed,      \* frames read so far
    notif,         \* notification value of the main task
    taken,         \* value the last ulTaskNotifyTake returned
    mustYield,     \* value the last callback returned
    ret,           \* status of the last adc_continuous_read
    ret_bytes,     \* bytes the last read reported
    readings,      \* the static sample buffer, as bytes
    frame,         \* the bytes the last ESP_OK read delivered
    avg,           \* the average computed from the last ESP_OK read
    adc_corr,      \* the corrected code of the last reading, in 1/10000
    voltage,       \* the voltage of the last reading, in 1/100000 V
    log,           \* frames a reading was logged for, in order
    delayLeft,     \* ticks left of the running vTaskDelay
    sinceEmit,     \* ticks the task has slept since the last log line
    pendingAtWake, \* frames in the pool when ulTaskNotifyTake returned
    okSinceWake    \* ESP_OK reads since ulTaskNotifyTake returned

vars == <<pc, fault, engine, cbRegistered, main_task, pool, ids, produced, consumed, notif,
          taken, mustYield, ret, ret_bytes, readings, frame, avg, adc_corr,
          voltage, log, delayLeft, sinceEmit, pendingAtWake, okSinceWake>>

hwVars == <<pool, ids, produced, notif, mustYield>>
loopVars == <<consumed, taken, ret, ret_bytes, readings, frame, avg,
              adc_corr, voltage, log, delayLeft, sinceEmit, pendingAtWake, okSinceWake>>

\* ------------------------------------------------------ pure helpers ----
\* faulty variant: a field of 14 bits
Type1DataWide(lo, hi) == (lo + 256 * hi) % 16384
\* reading.type1.data: the low 12 bits of the 16-bit little-endian sample
Type1Data(lo, hi) == (lo + 256 * hi) % 4096

\* readings[i] (0-based) of a byte buffer
ReadingAt(buf, i) ==
    Type1Data(buf[SOC_ADC_DIGI_RESULT_BYTES * i + 1],
              buf[SOC_ADC_DIGI_RESULT_BYTES * i + 2])

\* ret_bytes / sizeof(readings[0])
ReadingCount(bytes) == bytes \div SOC_ADC_DIGI_RESULT_BYTES

\* accum + reading.type1.data over the first n readings; n codes below 4096
\* sum to less than n * 4096, so the uint32_t addition is exact for n <= 100
RECURSIVE AccumulateFrom(_, _, _)
AccumulateFrom(buf, n, accum) ==
    IF n = 0 THEN accum
    ELSE AccumulateFrom(buf, n - 1, accum + ReadingAt(buf, n - 1))

\* faulty variant: sums the whole array, stale samples included
AccumulateWhole(buf, n) == AccumulateFrom(buf, kAdcSamplesToRead, 0)
\* std::accumulate(readings.begin(), readings.begin() + reading_count, 0u, +data)
Accumulate(buf, n) == AccumulateFrom(buf, n, 0)

\* the byte strings of length nbytes the hardware may have stored
FrameBytes(nbytes) ==
    { [i \in 1..nbytes |->
          s[(i + 1) \div SOC_ADC_DIGI_RESULT_BYTES]
           [((i - 1) % SOC_ADC_DIGI_RESULT_BYTES) + 1]] :
      s \in [1..((nbytes + 1) \div SOC_ADC_DIGI_RESULT_BYTES) -> Samples] }

\* the driver copies the frame's bytes to the front of the caller's buffer
CopyOut(buf, data) ==
    [i \in 1..Len(buf) |-> IF i <= Len(data) THEN data[i] ELSE buf[i]]

\* floor(x * n / d) for d > 0, without a product beyond 32 bits
MulDiv(x, n, d) == (x \div d) * n + ((x % d) * n) \div d

\* The calibration is single-precision arithmetic in the source; here its
\* values are fixed-point numbers in units of 1/10000, each term truncated.
\* 0.976323f * avg
CorrLinear(a) == MulDiv(a, 976323, 100)
\* 0.000163748f * avg2, avg2 = avg * avg
CorrSquare(a) == MulDiv(a * a, 40937, 25000)
\* 1.76614e-7f * avg3, avg3 = avg2 * avg
CorrCubic(a) == MulDiv(a * a + MulDiv(a * a, 38307, 50000), a, 1000)

\* faulty variant: the cubic coefficient mistyped as 1.76614e-6f
AdcCorrCubicTypo(a) ==
    404597 + CorrLinear(a) + CorrSquare(a) - 10 * CorrCubic(a)
\* adc_corr = 40.4597f + 0.976323f*avg + 0.000163748f*avg2 - 1.76614e-7f*avg3
AdcCorr(a) == 404597 + CorrLinear(a) + CorrSquare(a) - CorrCubic(a)

\* voltage = adc_corr * 3.3f / (1 << kAdcBitWidth), in units of 1/100000 V
Voltage(corr) == MulDiv(corr, 33, FullScale)

\* faulty variant: the line is logged twice
EmitTwice(l, id) == Append(Append(l, id), id)
\* ESP_LOGI: one line for the frame just read
Emit(l, id) == Append(l, id)

\* faulty variant: a delay of 1 ms
DelayTicksOneMs == 1 \div portTICK_PERIOD_MS
\* 1000 / portTICK_PERIOD_MS
DelayTicks == 1000 \div portTICK_PERIOD_MS

\* faulty variant: pdFALSE, the value is decremented on exit
NotifyAfterTakeDecrement(value) == value - 1
\* ulTaskNotifyTake(pdTRUE, ...): the value is cleared on exit
NotifyAfterTake(value) == 0

\* faulty variant: the break leaves the outer loop as well
AfterBreakLeaves == "stop"
\* break: out of the inner loop, to the top of the outer while(1); the calls
\* behind the outer loop ("stop", lines 121-122) are reached from nowhere
AfterBreak == "take"

\* faulty variants: no vTaskDelay; break on any failure; no break
AfterReadOkNoDelay(status) ==
    IF status = ESP_ERR_TIMEOUT THEN "take" ELSE "read"
AfterReadBreakOnError(status) ==
    IF status = ESP_OK THEN "delay" ELSE "take"
AfterReadNoBreak(status) ==
    IF status = ESP_OK THEN "delay" ELSE "read"
\* where the inner loop goes after a read that did not trap
AfterRead(status) ==
    IF status = ESP_OK THEN "delay"
    ELSE IF status = ESP_ERR_TIMEOUT THEN AfterBreak
    ELSE "read"

\* -------------------------------------------------------------- Init ----
Init ==
    /\ pc = "new_handle"
    /\ fault = "none"
    /\ engine = "uninitialized"
    /\ cbRegistered = FALSE
    /\ main_task = "null"
    /\ pool = <<>>
    /\ ids = <<>>
    /\ produced = 0
    /\ consumed = 0
    /\ notif = 0
    /\ taken = 0
    /\ mustYield = FALSE
    /\ ret = "none"
    /\ ret_bytes = 0
    /\ readings = [i \in 1..SizeofReadings |-> 0]
    /\ frame = <<>>
    /\ avg = 0
    /\ adc_corr = 0
    /\ voltage = 0
    /\ log = <<>>
    /\ delayLeft = 0
    /\ sinceEmit = 0
    /\ pendingAtWake = 0
    /\ okSinceWake = 0

\* faulty variant: the failure is recorded and the program goes on
ErrorCheckNoAbort(err, call, next) ==
    /\ pc' = next
    /\ fault' = IF err = ESP_OK THEN fault ELSE call
\* ESP_ERROR_CHECK(call): abort on anything but ESP_OK, else go on to next
ErrorCheck(err, call, next) ==
    IF err = ESP_OK
    THEN /\ pc' = next
         /\ fault' = fault
    ELSE /\ pc' = "aborted"
         /\ fault' = call

\* the panic handler stops the process
Trap(cause) ==
    /\ pc' = "aborted"
    /\ fault' = cause

\* --------------------------------------------------------- bring-up -----
\* faulty variant: the engine is started before the callback is registered
NextCallStartFirst(call) ==
    CASE call = "new_handle" -> "config"
      [] call = "config" -> "start"
      [] call = "start" -> "register"
      [] call = "register" -> "take"
\* the order of the calls of continuous_adc_init and app_main
NextCall(call) ==
    CASE call = "new_handle" -> "config"
      [] call = "config" -> "register"
      [] call = "register" -> "start"
      [] call = "start" -> "take"

NewHandle ==
    /\ pc = "new_handle"
    /\ \E err \in {ESP_OK, ESP_FAIL} :
          /\ ErrorCheck(err, "adc_continuous_new_handle", NextCall(pc))
          /\ engine' = IF err = ESP_OK THEN "created" ELSE engine
    /\ UNCHANGED <<cbRegistered, main_task, hwVars, loopVars>>

Config ==
    /\ pc = "config"
    /\ \E err \in {ESP_OK, ESP_FAIL} :
          /\ ErrorCheck(err, "adc_continuous_config", NextCall(pc))
          /\ engine' = IF err = ESP_OK THEN "configured" ELSE engine
    /\ UNCHANGED <<cbRegistered, main_task, hwVars, loopVars>>

RegisterCallbacks ==
    /\ pc = "register"
    /\ \E err \in {ESP_OK, ESP_FAIL} :
          /\ ErrorCheck(err, "adc_continuous_register_event_callbacks", NextCall(pc))
          /\ cbRegistered' = IF err = ESP_OK THEN TRUE ELSE cbRegistered
    /\ main_task' = "app_main"
    /\ UNCHANGED <<engine, hwVars, loopVars>>

Start ==
    /\ pc = "start"
    /\ \E err \in {ESP_OK, ESP_FAIL} :
          /\ ErrorCheck(err, "adc_continuous_start", NextCall(pc))
          /\ engine' = IF err = ESP_OK THEN "running" ELSE engine
    /\ UNCHANGED <<cbRegistered, main_task, hwVars, loopVars>>

\* ------------------------------------------------------- the consumer ---
\* ulTaskNotifyTake(pdTRUE, portMAX_DELAY): blocked while the value is 0
Take ==
    /\ pc = "take"
    /\ notif > 0
    /\ taken' = notif
    /\ notif' = NotifyAfterTake(notif)
    /\ pc' = "read"
    /\ pendingAtWake' = Len(pool)
    /\ okSinceWake' = 0
    /\ UNCHANGED <<fault, engine, cbRegistered, main_task, pool, ids, produced, consumed,
                   mustYield, ret, ret_bytes, readings, frame, avg, adc_corr,
                   voltage, log, delayLeft, sinceEmit>>

\* one pass of the inner loop up to the vTaskDelay call
Read ==
    /\ pc = "read"
    /\ \E status \in ReadStatus :
          /\ ret' = status
          /\ \/ /\ status = ESP_OK
                /\ pool # <<>>
                /\ \E data \in FrameBytes(Head(pool)) :
                      LET buf == CopyOut(readings, data)
                          reading_count == ReadingCount(Head(pool))
                          sum == Accumulate(buf, reading_count)
                      IN  /\ readings' = buf
                          /\ frame' = data
                          /\ ret_bytes' = Head(pool)
                          /\ pool' = Tail(pool)
                          /\ ids' = Tail(ids)
                          /\ consumed' = consumed + 1
                          /\ okSinceWake' = okSinceWake + 1
                          /\ IF reading_count = 0
                             THEN \* avg /= 0: trap, or any value
                                  \/ /\ Trap("IntegerDivideByZero")
                                     /\ UNCHANGED <<avg, adc_corr, voltage,
                                                    log, delayLeft,
                                                    sinceEmit>>
                                  \/ /\ avg' \in DivZeroValues
                                     /\ adc_corr' = AdcCorr(avg')
                                     /\ voltage' = Voltage(adc_corr')
                                     /\ log' = Emit(log, Head(ids))
                                     /\ pc' = AfterRead(status)
                                     /\ delayLeft' = DelayTicks
                                     /\ sinceEmit' = 0
                                     /\ fault' = fault
                             ELSE /\ avg' = sum \div reading_count
                                  /\ adc_corr' = AdcCorr(avg')
                                  /\ voltage' = Voltage(adc_corr')
                                  /\ log' = Emit(log, Head(ids))
                                  /\ pc' = AfterRead(status)
                                  /\ delayLeft' = DelayTicks
                                  /\ sinceEmit' = 0
                                  /\ fault' = fault
             \/ /\ status = ESP_ERR_TIMEOUT
                /\ pool = <<>>
                /\ pc' = AfterRead(status)
                /\ ret_bytes' = 0
                /\ UNCHANGED <<fault, pool, ids, consumed, readings, frame, avg,
                               adc_corr, voltage, log, delayLeft, sinceEmit, okSinceWake>>
             \/ /\ status = ESP_ERR_INVALID_STATE
                /\ pc' = AfterRead(status)
                /\ ret_bytes' = 0
                /\ UNCHANGED <<fault, pool, ids, consumed, readings, frame, avg,
                               adc_corr, voltage, log, delayLeft, sinceEmit, okSinceWake>>
    /\ UNCHANGED <<engine, cbRegistered, main_task, produced, notif, taken, mustYield,
                   pendingAtWake>>

\* a tick interrupt while the task sleeps in vTaskDelay
Tick ==
    /\ pc = "delay"
    /\ delayLeft > 0
    /\ delayLeft' = delayLeft - 1
    /\ sinceEmit' = sinceEmit + 1
    /\ UNCHANGED <<pc, fault, engine, cbRegistered, main_task, hwVars, consumed, taken,
                   ret, ret_bytes, readings, frame, avg, adc_corr, voltage, log,
                   pendingAtWake,
                   okSinceWake>>

\* vTaskDelay returns; the inner loop starts over
DelayExpire ==
    /\ pc = "delay"
    /\ delayLeft = 0
    /\ pc' = "read"
    /\ UNCHANGED <<fault, engine, cbRegistered, main_task, hwVars, loopVars>>

\* ------------------------------------------------------ the interrupt ---
\* vTaskNotifyGiveFromISR: the value is incremented; a task blocked in
\* ulTaskNotifyTake is readied, and it outranks the idle task that ran
HigherPriorityTaskWoken == pc = "take" /\ notif = 0

\* faulty variant: a context switch is asked for every time
CallbackReturnsTrue(woken) == TRUE
\* return mustYield == pdTRUE
CallbackReturn(woken) == woken

continuous_adc_done_callback ==
    /\ notif' = notif + 1
    /\ mustYield' = CallbackReturn(HigherPriorityTaskWoken)

\* the hardware stores one conversion frame and raises conversion-done
ConvDone ==
    /\ engine = "running"
    /\ pc # "aborted"
    /\ produced < MaxBatches
    /\ \E nbytes \in 0..SizeofReadings :
          pool' = Append(pool, nbytes)
    /\ ids' = Append(ids, produced + 1)
    /\ produced' = produced + 1
    /\ IF cbRegistered
       THEN continuous_adc_done_callback
       ELSE UNCHANGED <<notif, mustYield>>
    /\ UNCHANGED <<pc, fault, engine, cbRegistered, main_task, loopVars>>

Next ==
    \/ NewHandle
    \/ Config
    \/ RegisterCallbacks
    \/ Start
    \/ Take
    \/ Read
    \/ Tick
    \/ DelayExpire
    \/ ConvDone

Spec == Init /\ [][Next]_vars

\* the scheduler runs app_main whenever it is ready and the tick interrupt
\* keeps firing; the converter is under no obligation to finish a frame
FairSpec ==
    /\ Spec
    /\ WF_vars(Take)
    /\ WF_vars(Read)
    /\ WF_vars(Tick)
    /\ WF_vars(DelayExpire)

\* ------------------------------------- the calibration on its own -------
\* lines 101-110 applied to every average of the configured bit width
InitCal ==
    /\ pc = "calibrate"
    /\ avg \in ValidCodes
    /\ fault = "none"
    /\ engine = "running"
    /\ cbRegistered = TRUE
    /\ main_task = "app_main"
    /\ pool = <<>>
    /\ ids = <<>>
    /\ produced = 0
    /\ consumed = 0
    /\ notif = 0
    /\ taken = 0
    /\ mustYield = FALSE
    /\ ret = ESP_OK
    /\ ret_bytes = 0
    /\ readings = [i \in 1..SizeofReadings |-> 0]
    /\ frame = <<>>
    /\ adc_corr = 0
    /\ voltage = 0
    /\ log = <<>>
    /\ delayLeft = 0
    /\ sinceEmit = 0
    /\ pendingAtWake = 0
    /\ okSinceWake = 0

calVars == <<fault, engine, cbRegistered, main_task, pool, ids, produced, consumed, notif,
             taken, mustYield, ret, ret_bytes, readings, frame, log,
             delayLeft, sinceEmit, pendingAtWake, okSinceWake>>

\* the reading of the first average
Calibrate ==
    /\ pc = "calibrate"
    /\ adc_corr' = AdcCorr(avg)
    /\ voltage' = Voltage(adc_corr')
    /\ pc' = "calibrated"
    /\ UNCHANGED <<avg, calVars>>

\* the reading of a later average that is not smaller
CalibrateNext ==
    /\ pc = "calibrated"
    /\ \E b \in avg..(FullScale - 1) :
          /\ avg' = b
          /\ adc_corr' = AdcCorr(b)
          /\ voltage' = Voltage(adc_corr')
    /\ UNCHANGED <<pc, calVars>>

NextCal ==
    \/ Calibrate
    \/ CalibrateNext

SpecCal == InitCal /\ [][NextCal]_vars

\* what is stored and not read is what the pool holds
PoolAccounting == produced - consumed = Len(pool)

TypeOK ==
    /\ pc \in {"new_handle", "config", "register", "start", "take", "read",
               "delay", "stop", "aborted"}
    /\ notif \in 0..MaxBatches
    /\ Len(pool) <= MaxBatches
    /\ Len(readings) = SizeofReadings
    /\ delayLeft \in 0..DelayTicks

\* ------------------------------------------------------------ claims ----
\* the reporting interval in ticks
IntervalTicks == kReportIntervalMs \div portTICK_PERIOD_MS

\* a step of the consumer that logs a reading
Emits == Len(log') > Len(log)

\* sum of the raw codes of the first n samples of a delivered frame
RECURSIVE FrameSum(_, _)
FrameSum(data, n) ==
    IF n = 0 THEN 0
    ELSE FrameSum(data, n - 1)
         + ((data[2 * n - 1] + 256 * (data[2 * n] % 16)))

LifecycleCalls ==
    {"adc_continuous_new_handle", "adc_continuous_config",
     "adc_continuous_register_event_callbacks", "adc_continuous_start"}

\* C1: the inner loop goes back to ulTaskNotifyTake only on a read that
\* reported ESP_ERR_TIMEOUT, with the pool empty, everything stored so far
\* read, and at least one ESP_OK read made for every frame that was in the
\* pool when the task was woken.
C1_DrainComplete ==
    [][(pc = "read" /\ pc' = "take")
         => /\ ret' = ESP_ERR_TIMEOUT
            /\ pool = <<>> /\ pool' = <<>>
            /\ consumed' = produced'
            /\ okSinceWake' >= pendingAtWake']_vars

\* C1 witness: woken with two frames stored, two ESP_OK reads, then back.
C1_Witness ==
    /\ pc = "take"
    /\ ret = ESP_ERR_TIMEOUT
    /\ pendingAtWake >= 2
    /\ okSinceWake >= 2

\* C2 (as claimed): after an ESP_OK read of zero bytes the loop is at its
\* next read, nothing trapped and no reading was logged for that frame.
C2_ZeroByteReadSkipped ==
    (ret = ESP_OK /\ ret_bytes = 0)
        => /\ pc = "read"
           /\ fault = "none"
           /\ \A i \in 1..Len(log) : log[i] # consumed

\* C3 (as claimed): once a read has returned a status that is neither
\* ESP_OK nor ESP_ERR_TIMEOUT the process has terminated.
C3_UnexpectedStatusIsFatal ==
    (ret = ESP_ERR_INVALID_STATE) => (pc = "aborted")

\* C4 (as claimed): the loop enters the reporting delay only when no unread
\* frame remains in the pool.
C4_DelayOnlyWhenDrained ==
    [][(pc = "read" /\ pc' = "delay") => pool' = <<>>]_vars

\* C4 (amended): every ESP_OK read that does not trap is followed by the
\* full reporting delay, whatever remains in the pool, and the next read is
\* issued only when that delay has run out.
C4_OkReadThenFullDelay ==
    [][/\ (Read /\ ret' = ESP_OK /\ pc' # "aborted")
            => (pc' = "delay" /\ delayLeft' = IntervalTicks)
       /\ (pc = "delay" /\ pc' = "read")
            => (delayLeft = 0 /\ sinceEmit = IntervalTicks)]_vars

\* C4 witness: the task has slept the whole interval while a frame that was
\* already stored when it was woken is still unread.
C4_Witness ==
    /\ pc = "delay"
    /\ delayLeft = 0
    /\ sinceEmit = IntervalTicks
    /\ pool # <<>>
    /\ notif = 0

\* C5: ulTaskNotifyTake returns only on a non-zero notification value and
\* leaves it zero, however many times the callback has incremented it.
C5_TakeConsumesAll ==
    [][(pc = "take" /\ pc' = "read")
         => (notif > 0 /\ taken' = notif /\ notif' = 0)]_vars

\* C5 witness: two callbacks were consumed by one take, and the task is
\* blocked again with nothing pending.
C5_Witness ==
    /\ pc = "take"
    /\ taken >= 2
    /\ notif = 0

\* C6: a read issued while the pool is empty never returns ESP_OK, logs
\* nothing and starts no delay, and on ESP_ERR_TIMEOUT the task is back in
\* ulTaskNotifyTake.
C6_SpuriousWake ==
    [][(Read /\ pool = <<>>)
         => /\ ret' # ESP_OK
            /\ log' = log
            /\ pc' # "delay"
            /\ delayLeft' = delayLeft
            /\ (ret' = ESP_ERR_TIMEOUT => pc' = "take")]_vars

\* C6 witness: woken with an empty pool and back in ulTaskNotifyTake
\* without an ESP_OK read.
C6_Witness ==
    /\ pc = "take"
    /\ ret = ESP_ERR_TIMEOUT
    /\ taken > 0
    /\ pendingAtWake = 0
    /\ okSinceWake = 0

\* C7: when a reading is logged after an earlier one, the task has slept the
\* full interval since the earlier one.
C7_ReportingCadence ==
    [][(Emits /\ log # <<>>) => sinceEmit = IntervalTicks]_vars

\* C7 witness: a second reading has been logged.
C7_Witness ==
    /\ Len(log) >= 2
    /\ pc = "delay"

\* C8: after an ESP_OK read of n > 0 samples, avg is the truncated quotient
\* of the sum of the n codes that read delivered by n.
C8_AverageOfThisRead ==
    (ret = ESP_OK /\ ReadingCount(ret_bytes) > 0)
        => avg = FrameSum(frame, ReadingCount(ret_bytes))
                     \div ReadingCount(ret_bytes)

\* C8 witness: a one-sample read averaged while the buffer still holds a
\* non-zero second sample of an earlier, longer read.
C8_Witness ==
    /\ ret = ESP_OK
    /\ pc = "delay"
    /\ ret_bytes = SOC_ADC_DIGI_RESULT_BYTES
    /\ ReadingAt(readings, 1) # 0

\* C9 (as claimed): after an ESP_OK read whose byte count is not a multiple
\* of the sample size the process has aborted and no reading was logged for
\* that frame.
C9_PartialSampleIsFatal ==
    (ret = ESP_OK /\ ret_bytes % SOC_ADC_DIGI_RESULT_BYTES # 0)
        => /\ pc = "aborted"
           /\ \A i \in 1..Len(log) : log[i] # consumed

\* C10: once a bring-up call has failed the process is aborted, and no
\* wait has returned, no read was issued and no reading was logged.
C10_LifecycleFailureAborts ==
    (fault \in LifecycleCalls)
        => /\ pc = "aborted"
           /\ taken = 0
           /\ ret = "none"
           /\ consumed = 0
           /\ log = <<>>

\* C10 witness: adc_continuous_start failed.
C10_Witness ==
    /\ fault = "adc_continuous_start"
    /\ pc = "aborted"
\* C11: once the engine runs it keeps running, and app_main is in its loop
\* (waiting, reading or sleeping) or the process has aborted: control never
\* reaches adc_continuous_stop and adc_continuous_deinit behind the loop.
C11_LoopNeverExits ==
    [][(engine = "running")
         => /\ engine' = "running"
            /\ pc' \in {"take", "read", "delay", "aborted"}
            /\ pc' # "stop"]_vars

\* C11 witness: a frame was read, the inner loop was left by break,
\* and app_main waits again with the engine running.
C11_Witness ==
    /\ engine = "running"
    /\ pc = "take"
    /\ ret = ESP_ERR_TIMEOUT
    /\ consumed >= 1
\* slack, in 1/10000, that covers the rounding of the single-precision
\* operations and the truncation of the fixed-point terms
RoundingSlack == 20

\* C12: of two averages of the configured bit width the larger has the
\* corrected code larger by more than the rounding slack both ways, and a
\* voltage that is not smaller; equal averages have equal voltages.
C12_VoltageMonotone ==
    [][(pc = "calibrated" /\ pc' = "calibrated" /\ avg <= avg')
         => /\ voltage <= voltage'
            /\ (avg < avg' => adc_corr' - adc_corr > 2 * RoundingSlack)
            /\ (avg = avg' => voltage = voltage')]_vars

\* C12 witness: the largest code has been calibrated, to more than code 0.
C12_Witness ==
    /\ pc = "calibrated"
    /\ avg = FullScale - 1
    /\ voltage > Voltage(AdcCorr(0))
\* C13: a conversion-done interrupt leaves app_main where it is and changes
\* neither the engine, the sample buffer, the log nor anything else of the
\* consumer; the callback increments the notification value, and it returns
\* true exactly when the task was blocked in ulTaskNotifyTake and is woken.
C13_CallbackOnlyNotifies ==
    [][ConvDone
         => /\ UNCHANGED <<pc, fault, engine, cbRegistered, main_task, loopVars>>
            /\ notif' = notif + 1
            /\ (mustYield' <=> (pc = "take" /\ notif = 0))]_vars

\* C13 witness: the callback of a second frame has found the task blocked
\* in ulTaskNotifyTake, woken it and returned true.
C13_Witness ==
    /\ mustYield
    /\ pc = "take"
    /\ notif = 1
    /\ produced >= 2
\* WAITING and DRAINING of the drain loop
Waiting == pc = "take"
Draining == pc \in {"read", "delay"}

\* C14: the task leaves WAITING only for DRAINING and only on a non-zero
\* notification value; a read is issued (its status and the count of frames
\* read change) only while DRAINING; DRAINING is left for WAITING exactly by
\* a read that returns ESP_ERR_TIMEOUT.
C14_DrainStateMachine ==
    [][/\ (Waiting /\ ~Waiting') => (notif > 0 /\ pc' = "read")
       /\ (ret' # ret \/ consumed' # consumed \/ ret_bytes' # ret_bytes)
             => pc = "read"
       /\ (Draining /\ Waiting') => (Read /\ ret' = ESP_ERR_TIMEOUT)
       /\ (Read /\ ret' = ESP_ERR_TIMEOUT) => Waiting']_vars

\* C14 witness: WAITING, then DRAINING with a frame read, then WAITING
\* again.
C14_Witness ==
    /\ Waiting
    /\ ret = ESP_ERR_TIMEOUT
    /\ okSinceWake >= 1
    /\ taken >= 1
\* C15: an ESP_OK read of n > 0 samples logs exactly one reading, for the
\* frame it read, with the average of that frame's n codes; nothing else
\* logs; and the log lists the frames in the order in which they were stored,
\* none twice and none that was not read.
C15_OneReadingPerFrameInOrder ==
    /\ [][/\ ((Read /\ ret' = ESP_OK /\ ReadingCount(ret_bytes') > 0)
                 => (/\ log' = Append(log, consumed')
                     /\ Len(frame') = ret_bytes'
                     /\ avg' = FrameSum(frame', ReadingCount(ret_bytes'))
                                    \div ReadingCount(ret_bytes')))
           /\ ((log' # log)
                 => (Read /\ ret' = ESP_OK /\ Len(log') = Len(log) + 1))]_vars
    /\ [](/\ \A i \in 1..Len(log) : log[i] \in 1..consumed
          /\ \A i, j \in 1..Len(log) : i < j => log[i] < log[j])

\* C15 witness: two frames were stored, read and logged, the first first.
C15_Witness ==
    /\ log = <<1, 2>>
    /\ ReadingCount(ret_bytes) > 0
    /\ pc = "delay"
\* the reads of a run report nothing but ESP_OK and ESP_ERR_TIMEOUT
OnlyOkOrTimeout == [](ret \in {"none", ESP_OK, ESP_ERR_TIMEOUT})

\* a frame that is stored while the task is not blocked in ulTaskNotifyTake
\* leaves a notification pending, so the task never blocks over a stored frame
NoLostWakeup ==
    /\ [][(ConvDone /\ pc # "take") => notif' > 0]_vars
    /\ []((pc = "take" /\ pool # <<>>) => notif > 0)

\* C16: as long as reads report only ESP_OK or ESP_ERR_TIMEOUT, every frame
\* whose completion was notified is eventually read: once k frames have been
\* stored, k frames are eventually read.
C16_DeliveredFrameEventuallyRead ==
    OnlyOkOrTimeout
        => \A k \in 1..MaxBatches : (produced >= k) ~> (consumed >= k)

\* the same, for the runs in which no division traps
EventuallyReadUnlessTrapped ==
    (OnlyOkOrTimeout /\ [](fault # "IntegerDivideByZero"))
        => \A k \in 1..MaxBatches : (produced >= k) ~> (consumed >= k)
\* the states of the engine in the order in which the calls produce them
EngineOrder ==
    {<<"uninitialized", "created">>, <<"created", "configured">>,
     <<"configured", "running">>}

\* C17: the engine is created, then configured, then the callback is
\* registered with the task handle, then the engine is started, once; the
\* task waits and reads only on a running engine; and no frame completes,
\* and nothing is notified, before the callback and the task handle are set.
C17_InitOrder ==
    /\ [][/\ ((engine' # engine) => (<<engine, engine'>> \in EngineOrder))
           /\ ((cbRegistered' # cbRegistered)
                 => (/\ RegisterCallbacks
                     /\ engine = "configured"
                     /\ cbRegistered' /\ main_task' = "app_main"))
           /\ ((engine' = "running" /\ engine # "running")
                 => (Start /\ cbRegistered /\ main_task = "app_main"))
           /\ ((pc' = "start") => (pc \in {"register", "start"}))
           /\ ((pc' # pc /\ pc \in {"take", "read", "delay"})
                 => (engine = "running"))
           /\ ((ret' # ret) => (engine = "running"))
           /\ ((produced' # produced \/ notif' > notif)
                 => (/\ engine = "running"
                     /\ cbRegistered /\ main_task = "app_main"))]_vars
    /\ [](/\ (pc \in {"take", "read", "delay"}) => (engine = "running")
          /\ (engine = "running") => (cbRegistered /\ main_task = "app_main"))

\* C17 witness: after the four calls succeeded a frame was stored, notified
\* and read.
C17_Witness ==
    /\ engine = "running"
    /\ cbRegistered
    /\ main_task = "app_main"
    /\ fault = "none"
    /\ taken >= 1
    /\ consumed >= 1
\* kAdcSamplesToRead as the source has it
kAdcSamplesToReadFull == 100
\* the largest value of the 12-bit field type1.data
kMaxRawCode == 4095
\* x does not fit an unsigned 32-bit integer
Wraps32(x) == x \div 65536 >= 65536

\* C18: after an ESP_OK read the sample count is at most kAdcSamplesToRead,
\* the summed samples lie within the readings array, every summed code is at
\* most 4095, so the sum is at most count * 4095; and 100 * 4095 fits an
\* unsigned 32-bit integer, so the sum of the source's 100 samples cannot wrap.
C18_AveragingBounds ==
    /\ (ret = ESP_OK)
          => /\ ReadingCount(ret_bytes) <= kAdcSamplesToRead
             /\ ReadingCount(ret_bytes) * SOC_ADC_DIGI_RESULT_BYTES <= Len(readings)
             /\ \A i \in 0..(ReadingCount(ret_bytes) - 1) :
                    ReadingAt(readings, i) \in 0..kMaxRawCode
             /\ Accumulate(readings, ReadingCount(ret_bytes))
                    <= ReadingCount(ret_bytes) * kMaxRawCode
             /\ ~Wraps32(Accumulate(readings, ReadingCount(ret_bytes)))
    /\ ~Wraps32(kAdcSamplesToReadFull * kMaxRawCode)

\* C18 witness: an ESP_OK read that filled the whole readings array.
C18_Witness ==
    /\ ret = ESP_OK
    /\ ret_bytes = SizeofReadings
    /\ ReadingCount(ret_bytes) = kAdcSamplesToRead
    /\ Accumulate(readings, kAdcSamplesToRead) > kAdcSamplesToRead
====
